---- MODULE Spec2Model ----
(***************************************************************************)
(* Model of the Thacher Observatory scripts: the seeing-log pipeline of    *)
(* seeing.py (get_data, FWHM_all, FWHM_ave, vet_FWHM_series,               *)
(* FWHM_day_graph, get_FWHM_data_range) and the timeloop generator of      *)
(* thacher_obs.py.                                                         *)
(*                                                                         *)
(* A float is a pair <<n, d>>: the number n/d in units of 0.01 (d > 0), so *)
(* that 0.08 is <<8, 1>>, 10 is <<1000, 1>> and 0.004 is <<2, 5>>.  The    *)
(* pair <<0, 0>> is nan.                                                   *)
(***************************************************************************)
EXTENDS Integers, Sequences, FiniteSets, TLC

VARIABLES
    prog,                                           \* which routine is run
    time, raw, vetted,                              \* vet_FWHM_series
    data, allOut,                                   \* FWHM_all
    aveIn, aveOut,                                  \* FWHM_ave (on data)
    startDate, endDate, delta, currentDate, yielded, pc,   \* timeloop
    call, files, dictOut, vetArgs, pipeOut          \* get_data and its callers

vetVars  == <<time, raw, vetted>>
allVars  == <<allOut>>
aveVars  == <<aveIn, aveOut>>
loopVars == <<startDate, endDate, delta, currentDate, yielded, pc>>
pipeVars == <<call, files, dictOut, vetArgs, pipeOut>>
vars == <<prog, vetVars, data, allVars, aveVars, loopVars, pipeVars>>

----------------------------------------------------------------------------
(* Bounds of the model                                                     *)

MaxLen == 3        \* longest time / raw vector handed to vet_FWHM_series
MaxFields == 3     \* most fields in one row of data['FWHMraw']
MaxRows == 2       \* most rows of data['FWHMraw'] handed to FWHM_all / FWHM_ave
MaxLines == 11     \* most lines in a seeing log
MaxFiles == 2      \* most log files get_FWHM_data_range finds
MaxCalls == 2      \* calls of FWHM_ave on the same dictionary
MaxStart == 3      \* latest startDate of timeloop, in hours
MaxEnd == 25       \* latest endDate of timeloop, in hours
MaxDelta == 3      \* largest delta of timeloop, in hours

\* the sequences over S of length at most n
SeqsUpTo(S, n) == UNION {[1..k -> S] : k \in 0..n}

----------------------------------------------------------------------------
(* Floats                                                                  *)

NaN == <<0, 0>>

Abs(x) == IF x < 0 THEN -x ELSE x

RECURSIVE GCD(_, _)
GCD(a, b) == IF b = 0 THEN a ELSE GCD(b, a % b)

\* the float n/d in lowest terms
Float(n, d) == LET g == GCD(Abs(n), d) IN <<n \div g, d \div g>>

\* Python 2 round(x, 2): to the nearest 0.01, a tie away from zero
round2(x) ==
    LET n == x[1]
        d == x[2]
    IN  IF n >= 0 THEN <<(2 * n + d) \div (2 * d), 1>>
                  ELSE <<-((2 * (-n) + d) \div (2 * d)), 1>>

\* numpy comparisons of an array element with a float constant (in 0.01)
NotEqual(x, c) == x[1] # c * x[2]
Less(x, c)     == x[1] < c * x[2]

\* np.where(cond): the indices, in increasing order, at which cond holds
RECURSIVE whereFrom(_, _)
whereFrom(cond, i) ==
    IF i > Len(cond) THEN <<>>
    ELSE (IF cond[i] THEN <<i>> ELSE <<>>) \o whereFrom(cond, i + 1)

where(cond) == whereFrom(cond, 1)

\* numpy fancy indexing s[keep]
Index(s, keep) == [j \in 1..Len(keep) |-> s[keep[j]]]

\* length() of the length module: the number of elements of a vector
length(s) == Len(s)

----------------------------------------------------------------------------
(* vet_FWHM_series                                                         *)

\* results of a call: what it returned (or that it raised), and whether the
\* warning of line 312 was printed
Pending  == [kind |-> "pending", newt |-> <<>>, FWHM |-> <<>>, warned |-> FALSE]
NoVet    == [kind |-> "idle",    newt |-> <<>>, FWHM |-> <<>>, warned |-> FALSE]
NoneNone == [kind |-> "none",    newt |-> <<>>, FWHM |-> <<>>, warned |-> TRUE]
Raised   == [kind |-> "raised",  newt |-> <<>>, FWHM |-> <<>>, warned |-> FALSE]

IsNonZero(x)   == NotEqual(x, 0)
IsNotSat(x)    == NotEqual(x, 8)
Threshold      == 1000
BelowThresh(x) == Less(x, Threshold)

LengthsDiffer(newt, new) == length(newt) # length(new)

\* faulty variant: the third pass forgets the timestamps
FilterPassesNoTime3(newt0, new0) ==
    LET keep1 == where([i \in 1..Len(new0) |-> IsNonZero(new0[i])])
        new1  == Index(new0, keep1)
        newt1 == Index(newt0, keep1)
        keep2 == where([i \in 1..Len(new1) |-> IsNotSat(new1[i])])
        new2  == Index(new1, keep2)
        newt2 == Index(newt1, keep2)
        keep3 == where([i \in 1..Len(new2) |-> BelowThresh(new2[i])])
        new3  == Index(new2, keep3)
    IN  [kind |-> "returned", newt |-> newt2, FWHM |-> new3, warned |-> FALSE]

\* the three filter passes, lines 320-330
FilterPasses(newt0, new0) ==
    LET keep1 == where([i \in 1..Len(new0) |-> IsNonZero(new0[i])])
        new1  == Index(new0, keep1)
        newt1 == Index(newt0, keep1)
        keep2 == where([i \in 1..Len(new1) |-> IsNotSat(new1[i])])
        new2  == Index(new1, keep2)
        newt2 == Index(newt1, keep2)
        keep3 == where([i \in 1..Len(new2) |-> BelowThresh(new2[i])])
        new3  == Index(new2, keep3)
        newt3 == Index(newt2, keep3)
    IN  [kind |-> "returned", newt |-> newt3, FWHM |-> new3, warned |-> FALSE]

\* faulty variant: a length mismatch raises instead of returning None, None
vet_FWHM_series_raising(t, r) ==
    LET new  == [i \in 1..Len(r) |-> round2(r[i])]
        newt == t
    IN  IF LengthsDiffer(newt, new) \/ Len(r) = 0 THEN Raised
        ELSE FilterPasses(newt, new)

\* vet_FWHM_series(time, raw).  With an empty raw the name new is still the
\* Python list []: [] != 0.0 is the scalar True, np.where(True) is
\* (array([0]),) and indexing the empty list with it raises.  The pass of
\* lines 315-318 compares floats with '' and matches nothing.
vet_FWHM_series(t, r) ==
    LET new  == [i \in 1..Len(r) |-> round2(r[i])]
        newt == t
    IN  IF LengthsDiffer(newt, new) THEN NoneNone
        ELSE IF Len(r) = 0 THEN Raised
        ELSE FilterPasses(newt, new)

\* inputs: FWHM values 0, 0.004, 0.08, 0.084, 1.5, 9.994, 9.996 and 60
RawVals == {<<0, 1>>, <<2, 5>>, <<8, 1>>, <<42, 5>>, <<150, 1>>,
            <<4997, 5>>, <<4998, 5>>, <<6000, 1>>}
TimeVals == {1, 2}

NoOut == [kind |-> "idle", FWHM |-> <<>>]

IdleVet  == time = <<>> /\ raw = <<>> /\ vetted = NoVet
IdleAll  == allOut = NoOut
IdleAve  == aveIn = <<>> /\ aveOut = <<>>
IdleLoop == /\ startDate = 0 /\ endDate = 0 /\ delta = 0
            /\ currentDate = 0 /\ yielded = <<>> /\ pc = "idle"
IdlePipe == /\ call = [name |-> "idle"] /\ files = <<>> /\ dictOut = <<>>
            /\ vetArgs = <<>> /\ pipeOut = NoOut

InitVet ==
    /\ prog = "vet"
    /\ time \in SeqsUpTo(TimeVals, MaxLen)
    /\ raw \in SeqsUpTo(RawVals, MaxLen)
    /\ vetted = Pending
    /\ data = <<>> /\ IdleAll /\ IdleAve /\ IdleLoop /\ IdlePipe

Vet ==
    /\ prog = "vet"
    /\ vetted.kind = "pending"
    /\ vetted' = vet_FWHM_series(time, raw)
    /\ UNCHANGED <<prog, time, raw, data, allVars, aveVars, loopVars, pipeVars>>

NextVet == Vet
SpecVet == InitVet /\ [][NextVet]_vars

\* the rounded input values, and the test the three passes apply
Rounded(r) == [i \in 1..Len(r) |-> round2(r[i])]
Passes(x) == x[1] # 0 /\ x[1] # 8 /\ x[1] < 1000

\* the members of a set of indices, in increasing order
RECURSIVE SortedSeq(_)
SortedSeq(S) ==
    IF S = {} THEN <<>>
    ELSE LET m == CHOOSE x \in S : \A y \in S : x <= y
         IN  <<m>> \o SortedSeq(S \ {m})

\* C1: for every pair of equal-length inputs, vet_FWHM_series returns exactly
\* the rounded values of raw that are not 0, not 0.08 and below 10, in order.
C1_VetReturnsFiltered ==
    (vetted.kind # "pending" /\ Len(time) = Len(raw))
        => /\ vetted.kind = "returned"
           /\ vetted.FWHM = SelectSeq(Rounded(raw), Passes)

\* C2: unequal lengths give the warning and (None, None), with no filter pass
\* applied; equal lengths never give None.
C2_MismatchGivesNone ==
    vetted.kind # "pending"
        => /\ (Len(time) # Len(raw)) => vetted = NoneNone
           /\ (Len(time) = Len(raw)) => (vetted.kind # "none" /\ ~vetted.warned)

C2_Witness ==
    vetted.kind = "none" /\ Len(raw) > 0 /\ Len(time) > Len(raw)

\* C4: the returned vectors have equal lengths, and for one increasing list
\* of input indices the i-th timestamp and the i-th FWHM value both come from
\* the i-th index of that list.
C4_TimestampsCorrespond ==
    vetted.kind = "returned"
        => /\ Len(vetted.newt) = Len(vetted.FWHM)
           /\ \E S \in SUBSET (1..Len(raw)) :
                  LET idx == SortedSeq(S)
                  IN  /\ vetted.newt = Index(time, idx)
                      /\ vetted.FWHM = Index(Rounded(raw), idx)

C4_Witness ==
    /\ vetted.kind = "returned"
    /\ Len(vetted.FWHM) = 2 /\ Len(raw) = 3
    /\ raw[2] = <<0, 1>>
    /\ vetted.newt[1] # vetted.newt[2]

----------------------------------------------------------------------------
(* The fields of data['FWHMraw'] and astype('float')                       *)

Fields == {"", "0.0", "0.08", "1.5", "abc"}
Rows == SeqsUpTo(Fields, MaxFields)

\* the strings float() accepts; '' and 'abc' raise ValueError
IsNumeric(f) == f \in {"0.0", "0.08", "1.5", "2.5"}

\* float(f), in units of 0.01
FieldValue(f) ==
    CASE f = "0.0"  -> <<0, 1>>
      [] f = "0.08" -> <<8, 1>>
      [] f = "1.5"  -> <<150, 1>>
      [] f = "2.5"  -> <<250, 1>>

\* array.astype('float'): defined when every element is numeric
AsTypeOK(s) == \A i \in 1..Len(s) : IsNumeric(s[i])
AsType(s) == [i \in 1..Len(s) |-> FieldValue(s[i])]

IsEmptyStr(f) == f = ""

----------------------------------------------------------------------------
(* FWHM_all                                                                *)

\* the loop of lines 196-198: np.append of every row
RECURSIVE Flatten(_)
Flatten(rows) ==
    IF rows = <<>> THEN <<>> ELSE Head(rows) \o Flatten(Tail(rows))

\* `if inds:` on the array of 0-based indices np.where returned: an empty
\* array is false, a one-element array has the truth of its element, a longer
\* one raises ValueError
IndsTruth(inds) ==
    IF Len(inds) = 0 THEN "false"
    ELSE IF Len(inds) = 1 THEN (IF inds[1] - 1 # 0 THEN "true" ELSE "false")
    ELSE "raise"

KeepAll(x) == NotEqual(x, 0) /\ NotEqual(x, 8)

\* FWHM_all(data) on raw = data['FWHMraw'].  With no row at all new stays
\* the Python list [] and new.astype raises AttributeError.
FWHM_all(rows) ==
    LET new   == Flatten(rows)
        inds  == where([i \in 1..Len(new) |-> IsEmptyStr(new[i])])
        truth == IndsTruth(inds)
        new2  == IF truth = "true"
                 THEN [i \in 1..Len(new) |-> IF new[i] = "" THEN "0.0" ELSE new[i]]
                 ELSE new
    IN  IF Len(rows) = 0 \/ truth = "raise" \/ ~AsTypeOK(new2)
        THEN [kind |-> "raised", FWHM |-> <<>>]
        ELSE LET FWHM == AsType(new2)
                 keep == where([i \in 1..Len(FWHM) |-> KeepAll(FWHM[i])])
             IN  [kind |-> "returned", FWHM |-> Index(FWHM, keep)]

PendingOut == [kind |-> "pending", FWHM |-> <<>>]

InitAll ==
    /\ prog = "all"
    /\ data \in SeqsUpTo(Rows, MaxRows)
    /\ allOut = PendingOut
    /\ IdleVet /\ IdleAve /\ IdleLoop /\ IdlePipe

CallAll ==
    /\ prog = "all"
    /\ allOut.kind = "pending"
    /\ allOut' = FWHM_all(data)
    /\ UNCHANGED <<prog, vetVars, data, aveVars, loopVars, pipeVars>>

NextAll == CallAll
SpecAll == InitAll /\ [][NextAll]_vars

\* a field read as the claim reads it: an empty string is 0
ValueOrZero(f) == IF f = "" THEN <<0, 1>> ELSE FieldValue(f)

\* C5: whatever the number and position of empty strings, FWHM_all reads each
\* as 0, does not raise, and returns the flattened measurements that are
\* neither 0 nor 0.08, in input order.
C5_AllHandlesEmptyStrings ==
    LET new == Flatten(data)
    IN  (/\ allOut.kind # "pending"
         /\ Len(new) > 0
         /\ \A i \in 1..Len(new) : new[i] = "" \/ IsNumeric(new[i]))
        => /\ allOut.kind = "returned"
           /\ allOut.FWHM =
                  SelectSeq([i \in 1..Len(new) |-> ValueOrZero(new[i])], KeepAll)

----------------------------------------------------------------------------
(* FWHM_ave (clip=False, sigmas=False, as every caller in the pipeline     *)
(* calls it)                                                               *)

\* list.remove(x): drops the first occurrence of x
RECURSIVE Remove(_, _)
Remove(row, x) ==
    IF row = <<>> THEN <<>>
    ELSE IF Head(row) = x THEN Tail(row)
    ELSE <<Head(row)>> \o Remove(Tail(row), x)

Contains(row, x) == \E i \in 1..Len(row) : row[i] = x

\* lines 228-229
RemoveEmpty(row) == IF Contains(row, "") THEN Remove(row, "") ELSE row

RECURSIVE Sum(_)
Sum(v) == IF v = <<>> THEN 0 ELSE Head(v)[1] + Sum(Tail(v))

\* np.mean of floats that all have denominator 1; nan for no values
Mean(v) == IF Len(v) = 0 THEN NaN ELSE Float(Sum(v), Len(v))

nan_to_num(x) == IF x = NaN THEN <<0, 1>> ELSE x

\* faulty variant: a field that does not parse is skipped and the rest averaged
ValsSkippingBad(row) == AsType(SelectSeq(row, IsNumeric))

\* lines 232-235: the values averaged for a row, [0] on ValueError
Vals(row) == IF AsTypeOK(row) THEN AsType(row) ELSE << <<0, 1>> >>

\* FWHM_ave(data): the rows as it leaves them in data['FWHMraw'], the values
\* it averaged for each row and the array it returns
FWHM_ave(rows) ==
    LET left == [i \in 1..Len(rows) |-> RemoveEmpty(rows[i])]
        vals == [i \in 1..Len(rows) |-> Vals(left[i])]
    IN  [raw  |-> left,
         vals |-> vals,
         FWHM |-> [i \in 1..Len(rows) |-> nan_to_num(Mean(vals[i]))]]

InitAve ==
    /\ prog = "ave"
    /\ data \in SeqsUpTo(Rows, MaxRows)
    /\ aveIn = <<>>
    /\ aveOut = <<>>
    /\ IdleVet /\ IdleAll /\ IdleLoop /\ IdlePipe

\* one call FWHM_ave(data); aveIn keeps the rows as they were at the call
CallAve ==
    /\ prog = "ave"
    /\ Len(aveOut) < MaxCalls
    /\ LET r == FWHM_ave(data)
       IN  /\ aveIn' = data
           /\ data' = r.raw
           /\ aveOut' = Append(aveOut, [vals |-> r.vals, FWHM |-> r.FWHM])
    /\ UNCHANGED <<prog, vetVars, allVars, loopVars, pipeVars>>

NextAve == CallAve
SpecAve == InitAve /\ [][NextAve]_vars

NonEmptyFields(row) == SelectSeq(row, LAMBDA f : f # "")

\* C7: for every row whose non-empty fields are all numeric, the values
\* averaged are exactly its non-empty fields, however many empty strings the
\* row holds.
C7_AveDropsEveryEmptyString ==
    Len(aveOut) = 1
        => \A i \in 1..Len(aveIn) :
              (NonEmptyFields(aveIn[i]) # <<>> /\ AsTypeOK(NonEmptyFields(aveIn[i])))
                  => aveOut[1].vals[i] = AsType(NonEmptyFields(aveIn[i]))

\* C10: two calls of FWHM_ave in a row on the same dictionary return the
\* same per-row averages.
C10_AveRepeatable ==
    Len(aveOut) = 2 => aveOut[1].FWHM = aveOut[2].FWHM

----------------------------------------------------------------------------
(* Seeing logs and get_data                                                *)

\* one log line: the time and date strings, the four numeric columns and the
\* ;-separated raw FWHM fields.  Line k is written at 20:k:00.
Line(k, m, row) ==
    [time |-> <<20, k, 0>>,
     date |-> <<m, IF m = 4 THEN 30 ELSE 1, 2015>>,
     Fmin |-> k, Fmax |-> k + 1, FWHMave |-> <<150, 1>>, npts |-> Len(row),
     raw  |-> row]

PipeRows == {<<"1.5", "2.5">>, <<"1.5", "">>, <<"abc", "1.5">>,
             <<"", "", "1.5">>}

\* a log of n lines written in April whose last line is of month lm, with
\* raw fields r1 on its odd lines and r2 on its even lines
LogOf(n, r1, r2, lm) ==
    [k \in 1..n |-> Line(k, IF k = n THEN lm ELSE 4,
                         IF k % 2 = 1 THEN r1 ELSE r2)]

Logs == {LogOf(n, r1, r2, lm) :
            n \in 0..MaxLines, r1 \in PipeRows, r2 \in PipeRows, lm \in {4, 5}}

MoreLogs == {LogOf(n, <<"1.5", "2.5">>, <<"abc", "1.5">>, 4) : n \in 0..2}

\* hr + mn/60.0 + sec/3600.0, in seconds
TimeFloat(t) == t[1] * 3600 + t[2] * 60 + t[3]

\* tm_yday of a date of March, April or May 2015
YDay(d) == (CASE d[1] = 3 -> 59 [] d[1] = 4 -> 90 [] d[1] = 5 -> 120) + d[2]

\* tm_yday + hr/24.0 + mn/(24.0*60.0) + sec/(24.0*3600.0), in seconds
Doy(l) == YDay(l.date) * 86400 + TimeFloat(l.time)

\* datetime.datetime(yr, month, day, hr, mn, sec, 0)
DateTime(l) == <<l.date[3], l.date[1], l.date[2], l.time[1], l.time[2], l.time[3], 0>>

Stride == 10

\* faulty variant: the slice starts at the second entry
DecimateFromSecond(col) ==
    [j \in 1..((Len(col) + Stride - 2) \div Stride) |-> col[Stride * (j - 1) + 2]]

\* col[::10]
Decimate(col) ==
    [j \in 1..((Len(col) + Stride - 1) \div Stride) |-> col[Stride * (j - 1) + 1]]

\* get_data(year, month, day, tenmin) on the log the file name selects.  The
\* parse loop assigns its own month (and day) on every line, so the test of
\* line 167 reads the month of the last line whenever the log has a line.
get_data(year, month, tenmin, log) ==
    LET n        == Len(log)
        dt       == [i \in 1..n |-> DateTime(log[i])]
        time24v  == [i \in 1..n |-> TimeFloat(log[i].time)]
        doyv     == [i \in 1..n |-> Doy(log[i])]
        monthNow == IF n = 0 THEN month ELSE log[n].date[1]
        dec      == tenmin /\ year <= 2015 /\ monthNow <= 4
        S(col)   == IF dec THEN Decimate(col) ELSE col
    IN  [log |-> log,
         decimated |-> dec,
         dict |-> [datetime  |-> S(dt),
                   doy       |-> S(doyv),
                   timefloat |-> S(time24v),
                   time      |-> S([i \in 1..n |-> log[i].time]),
                   date      |-> S([i \in 1..n |-> log[i].date]),
                   Fmin      |-> S([i \in 1..n |-> log[i].Fmin]),
                   Fmax      |-> S([i \in 1..n |-> log[i].Fmax]),
                   FWHMave   |-> S([i \in 1..n |-> log[i].FWHMave]),
                   npts      |-> S([i \in 1..n |-> log[i].npts]),
                   FWHMraw   |-> S([i \in 1..n |-> log[i].raw])]]

----------------------------------------------------------------------------
(* FWHM_day_graph and get_FWHM_data_range                                  *)

DefaultYear  == 2015
DefaultMonth == 3

\* what a caller does with one dictionary: FWHM_ave, then vet_FWHM_series on
\* data['timefloat'] and the averages
Run(d) ==
    LET a == FWHM_ave(d.dict.FWHMraw)
    IN  [rows |-> d.dict.FWHMraw,
         time |-> d.dict.timefloat,
         raw  |-> a.FWHM,
         vet  |-> vet_FWHM_series(d.dict.timefloat, a.FWHM)]

\* vet_FWHM_series(...)[1] can be used: the call returned, and not None
Usable(run) == run.vet.kind = "returned"

\* FWHM_day_graph: prints when nothing is left, else draws the histogram
FWHM_day_graph(year, month, log) ==
    LET d == get_data(year, month, FALSE, log)
        r == Run(d)
    IN  [data |-> d, runs |-> <<r>>,
         out  |-> IF ~Usable(r) THEN [kind |-> "raised", FWHM |-> <<>>]
                  ELSE IF Len(r.vet.FWHM) = 0
                       THEN [kind |-> "printed", FWHM |-> <<>>]
                       ELSE [kind |-> "hist", FWHM |-> r.vet.FWHM]]

\* lines 386-393: the files dated from start_date to end_date
KeepFiles(fs, start, end) ==
    SelectSeq(fs, LAMBDA f : f.date >= start /\ f.date <= end)

\* the loop of lines 399-405 over keepfiles, from all_FWHM_data = acc; it ends
\* at the first file on which vet_FWHM_series raises or gives None
RECURSIVE RangeLoop(_, _, _, _, _)
RangeLoop(keep, tenmin, acc, runs, last) ==
    IF keep = <<>>
    THEN [data |-> last, runs |-> runs, out |-> [kind |-> "returned", FWHM |-> acc]]
    ELSE LET d == get_data(DefaultYear, DefaultMonth, tenmin, Head(keep).log)
             r == Run(d)
         IN  IF ~Usable(r)
             THEN [data |-> d, runs |-> Append(runs, r),
                   out  |-> [kind |-> "raised", FWHM |-> <<>>]]
             ELSE RangeLoop(Tail(keep), tenmin, acc \o r.vet.FWHM,
                            Append(runs, r), d)

NoData == [log |-> <<>>, decimated |-> FALSE, dict |-> <<>>]

get_FWHM_data_range(start, end, tenmin, fs) ==
    RangeLoop(KeepFiles(fs, start, end), tenmin, <<>>, <<>>, NoData)

\* the files glob finds: file i is dated day i
FileSets ==
    {<<>>} \cup
    UNION {{[i \in 1..k |-> [date |-> i, log |-> IF i = 1 THEN first ELSE rest[i - 1]]] :
                first \in Logs, rest \in [1..(k - 1) -> MoreLogs]} : k \in 1..MaxFiles}

InitPipe ==
    /\ prog = "pipe"
    /\ \/ /\ call \in [name : {"get_data"}, year : {2015, 2016}, month : {3, 5},
                        tenmin : BOOLEAN, start : {1}, end : {1}]
          /\ files \in {<<[date |-> 1, log |-> l]>> : l \in Logs}
       \/ /\ call \in [name : {"FWHM_day_graph"}, year : {2015}, month : {3, 5},
                        tenmin : {FALSE}, start : {1}, end : {1}]
          /\ files \in {<<[date |-> 1, log |-> l]>> : l \in Logs}
       \/ /\ call \in [name : {"get_FWHM_data_range"}, year : {DefaultYear},
                        month : {DefaultMonth}, tenmin : BOOLEAN,
                        start : {1, 2}, end : 1..MaxFiles]
          /\ files \in FileSets
    /\ dictOut = NoData
    /\ vetArgs = <<>>
    /\ pipeOut = PendingOut
    /\ IdleVet /\ data = <<>> /\ IdleAll /\ IdleAve /\ IdleLoop

CallGetData ==
    /\ prog = "pipe" /\ call.name = "get_data" /\ pipeOut.kind = "pending"
    /\ dictOut' = get_data(call.year, call.month, call.tenmin, files[1].log)
    /\ pipeOut' = [kind |-> "returned", FWHM |-> <<>>]
    /\ UNCHANGED <<prog, vetVars, data, allVars, aveVars, loopVars, call, files, vetArgs>>

CallDayGraph ==
    /\ prog = "pipe" /\ call.name = "FWHM_day_graph" /\ pipeOut.kind = "pending"
    /\ LET r == FWHM_day_graph(call.year, call.month, files[1].log)
       IN  dictOut' = r.data /\ vetArgs' = r.runs /\ pipeOut' = r.out
    /\ UNCHANGED <<prog, vetVars, data, allVars, aveVars, loopVars, call, files>>

CallDataRange ==
    /\ prog = "pipe" /\ call.name = "get_FWHM_data_range" /\ pipeOut.kind = "pending"
    /\ LET r == get_FWHM_data_range(call.start, call.end, call.tenmin, files)
       IN  dictOut' = r.data /\ vetArgs' = r.runs /\ pipeOut' = r.out
    /\ UNCHANGED <<prog, vetVars, data, allVars, aveVars, loopVars, call, files>>

NextPipe == CallGetData \/ CallDayGraph \/ CallDataRange
SpecPipe == InitPipe /\ [][NextPipe]_vars

\* a row with a field that is neither empty nor a number
Malformed(row) == \E i \in 1..Len(row) : row[i] # "" /\ ~IsNumeric(row[i])

RECURSIVE ConcatVetted(_)
ConcatVetted(runs) ==
    IF runs = <<>> THEN <<>> ELSE Head(runs).vet.FWHM \o ConcatVetted(Tail(runs))

\* C3: a row with a malformed field gets the average 0 from FWHM_ave and its
\* timestamp is not among those vet_FWHM_series keeps, so the list
\* get_FWHM_data_range returns is made of the vetted values of the other rows
\* only and holds no 0.
C3_MalformedRowsFilteredOut ==
    /\ \A f \in 1..Len(vetArgs) :
          LET r == vetArgs[f]
          IN  \A i \in 1..Len(r.rows) :
                 Malformed(r.rows[i])
                     => /\ r.raw[i] = <<0, 1>>
                        /\ \A j \in 1..Len(r.vet.newt) : r.vet.newt[j] # r.time[i]
    /\ (call.name = "get_FWHM_data_range" /\ pipeOut.kind = "returned")
          => /\ pipeOut.FWHM = ConcatVetted(vetArgs)
             /\ \A k \in 1..Len(pipeOut.FWHM) : pipeOut.FWHM[k][1] # 0

C3_Witness ==
    /\ call.name = "get_FWHM_data_range" /\ pipeOut.kind = "returned"
    /\ Len(pipeOut.FWHM) > 1
    /\ Len(vetArgs) = 2
    /\ \E i \in 1..Len(vetArgs[1].rows) : Malformed(vetArgs[1].rows[i])

Columns == {"datetime", "doy", "timefloat", "time", "date", "Fmin", "Fmax",
            "FWHMave", "npts", "FWHMraw"}

\* what column c holds for log line l
ColumnOf(c, l) ==
    CASE c = "datetime"  -> DateTime(l)
      [] c = "doy"       -> Doy(l)
      [] c = "timefloat" -> TimeFloat(l.time)
      [] c = "time"      -> l.time
      [] c = "date"      -> l.date
      [] c = "Fmin"      -> l.Fmin
      [] c = "Fmax"      -> l.Fmax
      [] c = "FWHMave"   -> l.FWHMave
      [] c = "npts"      -> l.npts
      [] c = "FWHMraw"   -> l.raw

\* the log lines a dictionary holds: all of them, or lines 0, 10, 20, ...
KeptLines(n, dec) ==
    IF dec THEN [j \in 1..((n + 9) \div 10) |-> 10 * (j - 1) + 1]
           ELSE [j \in 1..n |-> j]

\* C8: in the dictionary get_data returns all ten columns have the same
\* length and entry i of each comes from the same log line (when decimated,
\* lines 0, 10, 20, ...); the callers hand vet_FWHM_series vectors of equal
\* length and never index a (None, None).
C8_ColumnsAligned ==
    /\ dictOut # NoData =>
          LET kept == KeptLines(Len(dictOut.log), dictOut.decimated)
          IN  \A c \in Columns :
                 dictOut.dict[c] =
                     [j \in 1..Len(kept) |-> ColumnOf(c, dictOut.log[kept[j]])]
    /\ \A f \in 1..Len(vetArgs) :
          /\ Len(vetArgs[f].time) = Len(vetArgs[f].raw)
          /\ vetArgs[f].vet.kind # "none"

C8_Witness ==
    /\ call.name = "get_FWHM_data_range" /\ pipeOut.kind = "returned"
    /\ dictOut.decimated
    /\ Len(dictOut.log) = 11 /\ Len(dictOut.dict.FWHMraw) = 2
    /\ Len(vetArgs) = 1 /\ Len(vetArgs[1].time) = 2

\* C9: get_data decimates exactly when tenmin is true and the year and month
\* arguments satisfy year <= 2015 and month <= 4, whatever the log holds.
C9_DecimationByArguments ==
    dictOut # NoData
        => (dictOut.decimated
               <=> (call.tenmin /\ call.year <= 2015 /\ call.month <= 4))

----------------------------------------------------------------------------
(* timeloop and the hourly loop of thacher_obs.py; instants are hours      *)
(* counted from 2016-03-29 00:00                                           *)

HourlyStart == 1       \* datetime(2016, 3, 29, 01, 00, 00)
HourlyEnd   == 25      \* datetime(2016, 3, 30, 01, 00, 00)
HourlyDelta == 1       \* timedelta(hours=1)

\* faulty variant: the loop also runs at endDate
LoopCondInclusive(c, e) == c <= e

\* while currentDate < endDate
LoopCond(c, e) == c < e

InitLoop ==
    /\ prog = "loop"
    /\ \/ /\ startDate \in 0..MaxStart
          /\ endDate \in 0..MaxEnd
          /\ delta \in 1..MaxDelta
       \/ /\ startDate = HourlyStart
          /\ endDate = HourlyEnd
          /\ delta = HourlyDelta
    /\ currentDate = startDate
    /\ yielded = <<>>
    /\ pc = "test"
    /\ IdleVet /\ data = <<>> /\ IdleAll /\ IdleAve /\ IdlePipe

\* the loop test: enter the body, or fall off the end of the generator
LoopTest ==
    /\ prog = "loop" /\ pc = "test"
    /\ pc' = IF LoopCond(currentDate, endDate) THEN "yield" ELSE "done"
    /\ UNCHANGED <<startDate, endDate, delta, currentDate, yielded>>
    /\ UNCHANGED <<prog, vetVars, data, allVars, aveVars, pipeVars>>

\* yield currentDate (the consumer appends a sample), then currentDate += delta
LoopYield ==
    /\ prog = "loop" /\ pc = "yield"
    /\ yielded' = Append(yielded, currentDate)
    /\ currentDate' = currentDate + delta
    /\ pc' = "test"
    /\ UNCHANGED <<startDate, endDate, delta>>
    /\ UNCHANGED <<prog, vetVars, data, allVars, aveVars, pipeVars>>

NextLoop == LoopTest \/ LoopYield
SpecLoop == InitLoop /\ [][NextLoop]_vars /\ WF_vars(NextLoop)

LoopSafe ==
    /\ \A i \in 1..Len(yielded) :
          /\ yielded[i] = startDate + (i - 1) * delta
          /\ yielded[i] < endDate
    /\ pc = "done" =>
          /\ \A k \in 0..endDate :
                (startDate + k * delta < endDate) => k < Len(yielded)
          /\ (startDate >= endDate) => yielded = <<>>
          /\ (/\ startDate = HourlyStart /\ endDate = HourlyEnd
              /\ delta = HourlyDelta) => Len(yielded) = 24

\* C6: timeloop yields exactly the instants startDate + k*delta that are
\* earlier than endDate, in increasing order, nothing when startDate >=
\* endDate, and it terminates; the hourly loop over 24 hours takes 24 samples.
C6_Timeloop == []LoopSafe /\ <>(pc = "done")

C6_Witness ==
    /\ pc = "done"
    /\ startDate = HourlyStart /\ endDate = HourlyEnd /\ delta = HourlyDelta
    /\ Len(yielded) = 24

----------------------------------------------------------------------------
(* The scripts together: any one of the routines is run                    *)

Init == InitVet \/ InitAll \/ InitAve \/ InitPipe \/ InitLoop
Next == NextVet \/ NextAll \/ NextAve \/ NextPipe \/ NextLoop
Spec == Init /\ [][Next]_vars

====
